---- MODULE Spec2Model ----
(***************************************************************************)
(* Model of the MKB marketing e-mail generator: core.py (index caching,    *)
(* retrieval, extraction, generation, input parsing) driven by the         *)
(* Streamlit handler main() of interface.py.                               *)
(*                                                                         *)
(* Strings are sequences of one-character strings, so that strip, lower,   *)
(* split, join and splitlines are computed and not assumed.                *)
(***************************************************************************)
EXTENDS Integers, Sequences, FiniteSets, TLC

VARIABLES
    excel,              \* bytes of the source spreadsheet (a content id)
    indexArtifact,      \* index.faiss on disk: 0 = absent, f = built from content f
    hashFile,           \* hash.txt on disk: NoFile, or its text
    pc,                 \* position of main() in the current button click
    user_input,         \* main: text of the input box at the click
    challenge_name,     \* main: first component returned by parse_input
    company_name,       \* main: second component returned by parse_input
    current_hash,       \* load_or_create_vectorstore: current_hash
    stored_hash,        \* load_or_create_vectorstore: stored_hash
    branch,             \* load_or_create_vectorstore: "none" | "rebuild" | "load"
    vectorstore,        \* in-memory index handle: 0 = none, f = holds content f
    docs,               \* generate_cold_email: similarity_search result (NoDocs before)
    filtered_docs,      \* generate_cold_email: exact-title matches
    relevant_info_list, \* extract_relevant_info: records appended so far
    used_sources,       \* extract_relevant_info: first returned value
    combined_text,      \* extract_relevant_info: second returned value
    email,              \* value returned by generate_cold_email
    calls,              \* language-model calls issued in this click, in order
    touched,            \* pipeline steps attempted in this click (set of names)
    ui                  \* what the page shows: sequence of [kind, text]

vars == <<excel, indexArtifact, hashFile, pc, user_input, challenge_name,
          company_name, current_hash, stored_hash, branch, vectorstore, docs,
          filtered_docs, relevant_info_list, used_sources, combined_text,
          email, calls, touched, ui>>

diskVars  == <<excel, indexArtifact, hashFile>>
storeVars == <<current_hash, stored_hash, branch, vectorstore>>
genVars   == <<docs, filtered_docs, relevant_info_list, used_sources,
               combined_text, email>>

----------------------------------------------------------------------------
(* Bounds of the model *)

MaxInputLen == 3        \* longest text typed in the input box
MaxRespLen  == 2        \* longest raw extraction response
MaxDocs     == 2        \* most documents a similarity search returns here
NumFiles    == 2        \* distinct spreadsheet contents

(* similarity_search(challenge_name, k=6) *)
K == 6

----------------------------------------------------------------------------
(* Python str operations on sequences of characters *)

\* The value None; no string of the model equals it.
None == <<"None">>

\* str.isspace for the characters of the model.
IsSpace(c) == c \in {" ", "\n", "\t"}

RECURSIVE LStrip(_)
LStrip(s) ==
    IF s = <<>> THEN s
    ELSE IF IsSpace(Head(s)) THEN LStrip(Tail(s)) ELSE s

RECURSIVE RStrip(_)
RStrip(s) ==
    IF s = <<>> THEN s
    ELSE IF IsSpace(s[Len(s)]) THEN RStrip(SubSeq(s, 1, Len(s) - 1)) ELSE s

\* str.strip()
Strip(s) == RStrip(LStrip(s))

LowerChar(c) ==
    IF c = "A" THEN "a" ELSE IF c = "B" THEN "b" ELSE c

\* str.lower()
Lower(s) == [i \in 1..Len(s) |-> LowerChar(s[i])]

\* str.split(sep) with a one-character separator: "".split("|") = [""].
RECURSIVE Split(_, _)
Split(s, sep) ==
    IF \A i \in 1..Len(s) : s[i] # sep THEN <<s>>
    ELSE LET i == CHOOSE j \in 1..Len(s) :
                      s[j] = sep /\ \A k \in 1..(j - 1) : s[k] # sep
         IN  <<SubSeq(s, 1, i - 1)>> \o Split(SubSeq(s, i + 1, Len(s)), sep)

\* sep.join(parts)
RECURSIVE Join(_, _)
Join(sep, parts) ==
    IF parts = <<>> THEN <<>>
    ELSE IF Len(parts) = 1 THEN parts[1]
    ELSE parts[1] \o sep \o Join(sep, Tail(parts))

\* str.splitlines(): "" gives [], and a final line break opens no new line.
SplitLines(s) ==
    IF s = <<>> THEN <<>>
    ELSE LET parts == Split(s, "\n")
         IN  IF parts[Len(parts)] = <<>>
             THEN SubSeq(parts, 1, Len(parts) - 1) ELSE parts

\* All strings over alphabet A of length at most n.
Str(A, n) == UNION {[1..k -> A] : k \in 0..n}

Min(a, b) == IF a < b THEN a ELSE b

----------------------------------------------------------------------------
(* core.py: parse_input *)

parse_input_any_split(s) ==
    LET parts == Split(s, "|")
    IN  IF Len(parts) >= 2 THEN <<Strip(parts[1]), Strip(parts[2])>>
        ELSE <<None, None>>

parse_input(s) ==
    LET parts == Split(s, "|")
    IN  IF Len(parts) = 2 THEN <<Strip(parts[1]), Strip(parts[2])>>
        ELSE <<None, None>>

TruthyIfNotNone(x) == x # None

\* Python truth value of an Optional[str]: None and "" are false.
Truthy(x) == x # None /\ x # <<>>

\* interface.py line 44: `not challenge_name or not company_name`
InputRejected(ch, co) == ~Truthy(ch) \/ ~Truthy(co)

FormatError == [kind |-> "error", text |-> "Incorrect format"]

----------------------------------------------------------------------------
(* core.py: get_excel_hash and the staleness test *)

Files == 1..NumFiles

\* hashlib.md5(bytes).hexdigest(): a digest string, distinct for distinct
\* contents of the model, never empty and free of whitespace.
DigitChars == <<"1", "2", "3", "4">>

get_excel_hash(f) == <<"d", DigitChars[f]>>

\* hash.txt does not exist.
NoFile == <<"NoFile">>

\* lines 151-156: stored_hash stays None unless hash.txt exists.
ReadStoredHash(h) == IF h = NoFile THEN None ELSE Strip(h)

IsStaleHashOnly(cur, stored, indexExists) == stored # cur

\* line 159: `not os.path.exists(vectorstore_path) or stored_hash != current_hash`
IsStale(cur, stored, indexExists) == ~indexExists \/ stored # cur

SkipHashWrite(old, cur) == old

\* lines 174-175: the text hash.txt holds once f.write(current_hash) is done.
WrittenHash(old, cur) == cur

LoadError == [kind |-> "error", text |-> "Error loading resources"]

----------------------------------------------------------------------------
(* core.py: retrieval, extraction and generation *)

\* Documents a similarity search can return: metadata title and url.
CorpusList ==
    << [title |-> <<"a", " ">>, url |-> "u1"],
       [title |-> <<"A">>,      url |-> "u2"],
       [title |-> <<"b">>,      url |-> "u3"],
       [title |-> <<" ", "A">>, url |-> "u4"] >>

Corpus == {CorpusList[i] : i \in 1..3}

\* The local `docs` before line 121 assigns it.
NoDocs == <<[title |-> None, url |-> "None"]>>

\* Every result list of similarity_search(query, k=K) within the bound.
SearchResults == UNION {[1..n -> Corpus] : n \in 0..Min(K, MaxDocs)}

TitleMatchAny(doc, ch) == TRUE

\* line 124: title.strip().lower() == challenge_name.strip().lower()
TitleMatch(doc, ch) == Lower(Strip(doc.title)) = Lower(Strip(ch))

FilterDocs(ds, ch) == SelectSeq(ds, LAMBDA d : TitleMatch(d, ch))

\* line 126
NoExactMatchMsg(ch) == <<"NoExactMatch:">> \o ch

\* line 131
NoUsefulFactsMsg == <<"NoUsefulFacts">>

has_relevant_facts_no_list(extracted) ==
    Strip(extracted) \notin { <<"\"", "\"">>, <<>> }

\* lines 29-30
has_relevant_facts(extracted) ==
    Strip(extracted) \notin { <<"[", "]">>, <<"\"", "\"">>, <<>> }

\* A failed chat_model.invoke.
Fail == <<"Fail">>

ExtractStepRecordFailure(list, doc, outcome) ==
    Append(list, [title |-> doc.title, url |-> doc.url,
                  extracted_facts |-> IF outcome = Fail THEN <<"e">>
                                      ELSE Strip(outcome)])

\* lines 35-62: one iteration of the loop, given the outcome of the call.
ExtractStep(list, doc, outcome) ==
    IF outcome = Fail THEN list
    ELSE Append(list, [title |-> doc.title, url |-> doc.url,
                       extracted_facts |-> Strip(outcome)])

\* line 65
UsedSources(list) ==
    SelectSeq(list, LAMBDA info : has_relevant_facts(info.extracted_facts))

\* line 66
CombinedText(used) ==
    Join(<<"\n">>, [i \in 1..Len(used) |-> used[i].extracted_facts])

\* lines 33-67 as a function of the documents and the outcome of each call.
RECURSIVE ExtractLoop(_, _, _)
ExtractLoop(list, ds, outcomes) ==
    IF ds = <<>> THEN list
    ELSE ExtractLoop(ExtractStep(list, Head(ds), Head(outcomes)),
                     Tail(ds), Tail(outcomes))

extract_relevant_info(ds, outcomes) ==
    LET used == UsedSources(ExtractLoop(<<>>, ds, outcomes))
    IN  <<used, CombinedText(used)>>

NeverShortCircuit(text) == FALSE

\* line 130: `not combined_text.strip()`
NoUsefulFacts(text) == Strip(text) = <<>>

GenerationError == [kind |-> "error", text |-> "Email generation failed"]

ShowPartialEmail(partial) == [kind |-> "markdown", text |-> partial]

\* interface.py lines 70-71: the handler of the generation try block.
OnGenerationException(partial) == GenerationError

\* interface.py line 69: the markdown text built from the returned string.
Rendered(text) ==
    LET lines == SplitLines(text)
    IN  lines[1] \o <<"\n", "\n">> \o Join(<<"\n">>, Tail(lines))

----------------------------------------------------------------------------
(* Inputs of the environment *)

\* Texts typed in the input box.
UserInputs == Str({"A", " ", "|"}, MaxInputLen)

\* Texts given to parse_input when it is exercised on its own.
ParseInputs == Str({"A", "b", " ", "|"}, MaxInputLen + 1)

\* Document lists given to extract_relevant_info when it is exercised on
\* its own: distinct documents, so that order and identity are visible.
ExtractInputs == {SubSeq(CorpusList, 1, n) : n \in 0..Min(MaxDocs, Len(CorpusList))}

\* Raw responses of the extraction call: bracket texts and quote texts, with
\* whitespace anywhere; they hold the three sentinels, padded or not, and
\* texts one character away from each.
Responses == Str({"[", "]", " "}, MaxRespLen) \cup Str({"\"", " "}, MaxRespLen)

\* Raw responses the application run distinguishes: the three sentinels,
\* blank text and useful text, trimmed or not.
AppResponses ==
    { <<" ">>, <<"[", "]">>, <<"\"", "\"">>, <<" ", "x">> }

\* Raw responses of the generation call.
EmailResponses == { <<"\n">>, <<"x", "\n", "y">>, <<" ", "x">> }

----------------------------------------------------------------------------
(* State *)

NoLocals ==
    /\ current_hash = None /\ stored_hash = None /\ branch = "none"
    /\ vectorstore = 0
    /\ docs = NoDocs /\ filtered_docs = <<>> /\ relevant_info_list = <<>>
    /\ used_sources = <<>> /\ combined_text = <<>> /\ email = None
    /\ calls = <<>> /\ touched = {}

ResetLocals ==
    /\ current_hash' = None /\ stored_hash' = None /\ branch' = "none"
    /\ vectorstore' = 0
    /\ docs' = NoDocs /\ filtered_docs' = <<>> /\ relevant_info_list' = <<>>
    /\ used_sources' = <<>> /\ combined_text' = <<>> /\ email' = None
    /\ calls' = <<>> /\ touched' = {}

\* A fresh deployment: the spreadsheet exists, ./vstore does not, and the
\* page has not been clicked.
Init ==
    /\ excel \in Files
    /\ indexArtifact = 0
    /\ hashFile = NoFile
    /\ pc = "Idle"
    /\ user_input = <<>> /\ challenge_name = None /\ company_name = None
    /\ NoLocals
    /\ ui = <<>>

\* main() is not running: the page waits for the next click.
AtRest == pc = "Idle"

----------------------------------------------------------------------------
(* Environment between clicks *)

\* interface.py lines 25-34: another spreadsheet is uploaded (or the default
\* file is edited) between two clicks.
ChangeFile ==
    /\ AtRest
    /\ \E f \in Files \ {excel} : excel' = f
    /\ UNCHANGED <<indexArtifact, hashFile, pc, user_input, challenge_name,
                   company_name, storeVars, genVars, calls, touched, ui>>

\* The index artifact is removed from ./vstore between two clicks; line 159
\* tests for exactly this.
RemoveIndex ==
    /\ AtRest
    /\ indexArtifact # 0
    /\ indexArtifact' = 0
    /\ UNCHANGED <<excel, hashFile, pc, user_input, challenge_name,
                   company_name, storeVars, genVars, calls, touched, ui>>

\* The process is interrupted in the middle of a click; the disk keeps what
\* was written and the next click starts main() again.
Interrupt ==
    /\ pc \notin {"Idle", "Done"}
    /\ pc' = "Idle"
    /\ user_input' = <<>> /\ challenge_name' = None /\ company_name' = None
    /\ ResetLocals
    /\ ui' = <<>>
    /\ UNCHANGED diskVars

\* main() returns: its locals are gone, the page keeps what it shows.
Return ==
    /\ pc = "Done"
    /\ pc' = "Idle"
    /\ user_input' = <<>> /\ challenge_name' = None /\ company_name' = None
    /\ ResetLocals
    /\ UNCHANGED <<diskVars, ui>>

----------------------------------------------------------------------------
(* interface.py: main, lines 41-46 *)

Click(inputs) ==
    /\ AtRest
    /\ \E s \in inputs :
         LET parsed == parse_input(s)
         IN  /\ user_input' = s
             /\ challenge_name' = parsed[1]
             /\ company_name' = parsed[2]
             /\ IF InputRejected(parsed[1], parsed[2])
                THEN ui' = <<FormatError>> /\ pc' = "Done"
                ELSE ui' = <<>> /\ pc' = "Hash"
    /\ ResetLocals
    /\ UNCHANGED diskVars

----------------------------------------------------------------------------
(* core.py: load_or_create_vectorstore, lines 147-178 *)

\* lines 148-159: hash the file, read hash.txt, choose the branch.
CheckStale ==
    /\ pc = "Hash"
    /\ LET cur    == get_excel_hash(excel)
           stored == ReadStoredHash(hashFile)
       IN  /\ current_hash' = cur
           /\ stored_hash' = stored
           /\ IF IsStale(cur, stored, indexArtifact # 0)
              THEN branch' = "rebuild" /\ pc' = "Build"
              ELSE branch' = "load" /\ pc' = "Load"
    /\ touched' = touched \cup {"hash"}
    /\ UNCHANGED <<diskVars, user_input, challenge_name, company_name,
                   vectorstore, genVars, calls, ui>>

\* lines 160-169 and 81-87: read the rows, chunk them, embed them.
BuildIndex ==
    /\ pc = "Build"
    /\ vectorstore' = excel
    /\ pc' = "Save"
    /\ touched' = touched \cup {"embed"}
    /\ UNCHANGED <<diskVars, user_input, challenge_name, company_name,
                   current_hash, stored_hash, branch, genVars, calls, ui>>

\* lines 88-89: persist the index.
SaveIndex ==
    /\ pc = "Save"
    /\ indexArtifact' = vectorstore
    /\ pc' = "OpenHash"
    /\ touched' = touched \cup {"save"}
    /\ UNCHANGED <<excel, hashFile, user_input, challenge_name, company_name,
                   storeVars, genVars, calls, ui>>

\* lines 173-174: open(hash_path, 'w') creates or truncates hash.txt.
OpenHash ==
    /\ pc = "OpenHash"
    /\ hashFile' = <<>>
    /\ pc' = "WriteHash"
    /\ touched' = touched \cup {"writehash"}
    /\ UNCHANGED <<excel, indexArtifact, user_input, challenge_name,
                   company_name, storeVars, genVars, calls, ui>>

\* line 175: f.write(current_hash), then the function returns (line 178).
WriteHash ==
    /\ pc = "WriteHash"
    /\ hashFile' = WrittenHash(hashFile, current_hash)
    /\ pc' = "Models"
    /\ UNCHANGED <<excel, indexArtifact, user_input, challenge_name,
                   company_name, storeVars, genVars, calls, touched, ui>>

\* line 177: load_vectorstore().
LoadIndex ==
    /\ pc = "Load"
    /\ vectorstore' = indexArtifact
    /\ pc' = "Models"
    /\ touched' = touched \cup {"load"}
    /\ UNCHANGED <<diskVars, user_input, challenge_name, company_name,
                   current_hash, stored_hash, branch, genVars, calls, ui>>

\* interface.py line 54: initialize_chat_models().
InitModels ==
    /\ pc = "Models"
    /\ pc' = "Search"
    /\ UNCHANGED <<diskVars, user_input, challenge_name, company_name,
                   storeVars, genVars, calls, touched, ui>>

\* The step main() is about to attempt at each position of the first try.
StepAt(p) ==
    CASE p = "Hash"      -> "hash"
      [] p = "Build"     -> "embed"
      [] p = "Save"      -> "save"
      [] p = "OpenHash"  -> "writehash"
      [] p = "WriteHash" -> "writehash"
      [] p = "Load"      -> "load"
      [] OTHER           -> "models"

\* interface.py lines 50-57: any exception raised while the resources are
\* loaded (unreadable file, embedding service, disk, corrupt index, model
\* set-up) ends the click with an error.
ResourceFailure ==
    /\ pc \in {"Hash", "Build", "Save", "OpenHash", "WriteHash", "Load", "Models"}
    /\ touched' = touched \cup {StepAt(pc)}
    /\ ui' = <<LoadError>>
    /\ pc' = "Done"
    /\ UNCHANGED <<diskVars, user_input, challenge_name, company_name,
                   storeVars, genVars, calls>>

----------------------------------------------------------------------------
(* core.py: generate_cold_email, lines 119-139 *)

ExtractCallRecord(i, outcome) == [kind |-> "extract", doc |-> i, outcome |-> outcome]

GenerateCallRecord(outcome) == [kind |-> "generate", doc |-> 0, outcome |-> outcome]

\* lines 121-126: similarity search, exact-title filter, short circuit.
Search ==
    /\ pc = "Search"
    /\ \E ds \in SearchResults :
         LET fd == FilterDocs(ds, challenge_name)
         IN  /\ docs' = ds
             /\ filtered_docs' = fd
             /\ IF fd = <<>>
                THEN email' = NoExactMatchMsg(challenge_name) /\ pc' = "Display"
                ELSE email' = email /\ pc' = "Extract"
    /\ touched' = touched \cup {"search"}
    /\ UNCHANGED <<diskVars, user_input, challenge_name, company_name,
                   storeVars, relevant_info_list, used_sources, combined_text,
                   calls, ui>>

\* lines 35-62: the call for the next document answers.
ExtractCall(responses) ==
    /\ pc = "Extract"
    /\ Len(calls) < Len(filtered_docs)
    /\ \E r \in responses :
         LET i == Len(calls) + 1
         IN  /\ relevant_info_list' =
                    ExtractStep(relevant_info_list, filtered_docs[i], r)
             /\ calls' = Append(calls, ExtractCallRecord(i, r))
    /\ touched' = touched \cup {"llm"}
    /\ UNCHANGED <<diskVars, pc, user_input, challenge_name, company_name,
                   storeVars, docs, filtered_docs, used_sources, combined_text,
                   email, ui>>

\* lines 42-46: the call for the next document raises.
ExtractFail ==
    /\ pc = "Extract"
    /\ Len(calls) < Len(filtered_docs)
    /\ LET i == Len(calls) + 1
       IN  /\ relevant_info_list' =
                  ExtractStep(relevant_info_list, filtered_docs[i], Fail)
           /\ calls' = Append(calls, ExtractCallRecord(i, Fail))
    /\ touched' = touched \cup {"llm"}
    /\ UNCHANGED <<diskVars, pc, user_input, challenge_name, company_name,
                   storeVars, docs, filtered_docs, used_sources, combined_text,
                   email, ui>>

\* lines 65-67 and 129-131: the loop is over; filter, join, short circuit.
ExtractReturn ==
    /\ pc = "Extract"
    /\ Len(calls) = Len(filtered_docs)
    /\ LET used == UsedSources(relevant_info_list)
           text == CombinedText(used)
       IN  /\ used_sources' = used
           /\ combined_text' = text
           /\ IF NoUsefulFacts(text)
              THEN email' = NoUsefulFactsMsg /\ pc' = "Display"
              ELSE email' = email /\ pc' = "Generate"
    /\ UNCHANGED <<diskVars, user_input, challenge_name, company_name,
                   storeVars, docs, filtered_docs, relevant_info_list, calls,
                   touched, ui>>

\* lines 134-139: the generation call answers.
Generate ==
    /\ pc = "Generate"
    /\ \E r \in EmailResponses :
         /\ email' = Strip(r)
         /\ calls' = Append(calls, GenerateCallRecord(r))
    /\ pc' = "Display"
    /\ touched' = touched \cup {"llm"}
    /\ UNCHANGED <<diskVars, user_input, challenge_name, company_name,
                   storeVars, docs, filtered_docs, relevant_info_list,
                   used_sources, combined_text, ui>>

\* The similarity search (line 121) or the generation call (line 138)
\* raises; interface.py lines 70-71 catch it.
GenerationFailure ==
    /\ pc \in {"Search", "Generate"}
    /\ IF pc = "Search"
       THEN touched' = touched \cup {"search"} /\ calls' = calls
       ELSE touched' = touched \cup {"llm"}
            /\ calls' = Append(calls, GenerateCallRecord(Fail))
    /\ ui' = <<OnGenerationException(combined_text)>>
    /\ pc' = "Done"
    /\ UNCHANGED <<diskVars, user_input, challenge_name, company_name,
                   storeVars, genVars>>

\* interface.py line 69: show the returned text; "".splitlines()[0] raises
\* IndexError, which lines 70-71 catch.
Display ==
    /\ pc = "Display"
    /\ IF SplitLines(email) = <<>>
       THEN ui' = <<OnGenerationException(email)>>
       ELSE ui' = <<[kind |-> "markdown", text |-> Rendered(email)]>>
    /\ pc' = "Done"
    /\ UNCHANGED <<diskVars, user_input, challenge_name, company_name,
                   storeVars, genVars, calls, touched>>

----------------------------------------------------------------------------
(* Specifications *)

\* The application: clicks, one after the other, on a disk that persists.
Next ==
    \/ ChangeFile
    \/ RemoveIndex
    \/ Interrupt
    \/ Return
    \/ Click(UserInputs)
    \/ CheckStale
    \/ BuildIndex
    \/ SaveIndex
    \/ OpenHash
    \/ WriteHash
    \/ LoadIndex
    \/ InitModels
    \/ ResourceFailure
    \/ Search
    \/ ExtractCall(AppResponses)
    \/ ExtractFail
    \/ ExtractReturn
    \/ Generate
    \/ GenerationFailure
    \/ Display

Spec == Init /\ [][Next]_vars

\* parse_input on its own, through the click that calls it.
NextParse == Click(ParseInputs) \/ Return

SpecParse == Init /\ [][NextParse]_vars

\* extract_relevant_info on its own: any document list, any responses.
InitExtract ==
    /\ excel = 1 /\ indexArtifact = 1 /\ hashFile = get_excel_hash(1)
    /\ pc = "Extract"
    /\ user_input = <<"A", "|", "A">>
    /\ challenge_name = <<"A">> /\ company_name = <<"A">>
    /\ current_hash = get_excel_hash(1) /\ stored_hash = get_excel_hash(1)
    /\ branch = "load" /\ vectorstore = 1
    /\ filtered_docs \in ExtractInputs
    /\ docs = filtered_docs
    /\ relevant_info_list = <<>> /\ used_sources = <<>>
    /\ combined_text = <<>> /\ email = None
    /\ calls = <<>> /\ touched = {"hash", "load", "search"}
    /\ ui = <<>>

NextExtract ==
    \/ ExtractCall(Responses)
    \/ ExtractFail
    \/ ExtractReturn

SpecExtract == InitExtract /\ [][NextExtract]_vars

----------------------------------------------------------------------------
(* Vocabulary of the properties, stated without the operators of the model *)

\* Positions of the character c in s.
Positions(s, c) == {i \in 1..Len(s) : s[i] = c}

\* Positions of s that hold no whitespace.
Solid(s) == {i \in 1..Len(s) : s[i] \notin {" ", "\n", "\t"}}

Blank(s) == Solid(s) = {}

\* s without its leading and trailing whitespace, by positions.
Trim(s) ==
    IF Blank(s) THEN <<>>
    ELSE LET lo == CHOOSE i \in Solid(s) : \A j \in Solid(s) : i <= j
             hi == CHOOSE i \in Solid(s) : \A j \in Solid(s) : j <= i
         IN  [k \in 1..(hi - lo + 1) |-> s[lo + k - 1]]

\* The text before and after the only "|" of s.
Before(s) == LET i == CHOOSE j \in Positions(s, "|") : TRUE
             IN  [k \in 1..(i - 1) |-> s[k]]

After(s) == LET i == CHOOSE j \in Positions(s, "|") : TRUE
            IN  [k \in 1..(Len(s) - i) |-> s[i + k]]

OneBar(s) == Cardinality(Positions(s, "|")) = 1

\* Two non-empty trimmed parts separated by one "|".
WellFormed(s) == OneBar(s) /\ ~Blank(Before(s)) /\ ~Blank(After(s))

\* The k-th smallest element of a set of numbers.
Nth(S, k) == CHOOSE i \in S : Cardinality({j \in S : j < i}) = k - 1

Sentinels == { <<>>, <<"[", "]">>, <<"\"", "\"">> }

\* The call for document i succeeded and its response is no sentinel.
UsefulCall(i) ==
    /\ calls[i].outcome # Fail
    /\ Trim(calls[i].outcome) \notin Sentinels

\* f[1], newline, f[2], newline, ..., f[n]
RECURSIVE Lines(_, _)
Lines(f, n) ==
    IF n = 0 THEN <<>>
    ELSE IF n = 1 THEN f[1]
    ELSE Lines(f, n - 1) \o <<"\n">> \o f[n]

\* extract_relevant_info has returned in this click.
ExtractionOver == filtered_docs # <<>> /\ pc \in {"Generate", "Display", "Done"}

InRun == pc \notin {"Idle"}

----------------------------------------------------------------------------
(* Properties *)

\* hash.txt exists and holds exactly the digest of the current spreadsheet.
FingerprintMatches == hashFile # NoFile /\ hashFile = get_excel_hash(excel)

\* C1: load_or_create_vectorstore rebuilds exactly when the index artifact
\* is absent or hash.txt is absent or differs from the digest of the current
\* file; otherwise it loads the index from disk and rebuilds nothing.
C1_RebuildIffStale ==
    /\ pc \in {"Build", "Load"} =>
          /\ (pc = "Build") <=> (indexArtifact = 0 \/ ~FingerprintMatches)
          /\ branch = (IF pc = "Build" THEN "rebuild" ELSE "load")
          /\ current_hash = get_excel_hash(excel)
    /\ branch = "load" =>
          /\ touched \cap {"embed", "save", "writehash"} = {}
          /\ indexArtifact # 0 /\ FingerprintMatches
          /\ pc \in {"Models", "Search"} =>
                "load" \in touched /\ vectorstore = indexArtifact
    /\ branch = "rebuild" => "load" \notin touched

\* C1 witness: the index artifact is absent while hash.txt matches the
\* file, and the rebuild branch was taken.
C1_Witness ==
    pc = "Build" /\ branch = "rebuild" /\ indexArtifact = 0 /\ FingerprintMatches

\* C5 as stated: parse_input returns the two trimmed parts only when the
\* text is two non-blank parts around one "|", and (None, None) otherwise.
C5_Original ==
    pc \in {"Hash", "Done"} =>
        <<challenge_name, company_name>> =
            IF WellFormed(user_input)
            THEN <<Trim(Before(user_input)), Trim(After(user_input))>>
            ELSE <<None, None>>

\* C5 amended: parse_input returns (None, None) exactly when the text does
\* not hold exactly one "|"; with exactly one "|" it returns the trimmed
\* text before it and the trimmed text after it, either of which is the
\* empty string when that part is blank.
C5_ParseInput ==
    pc \in {"Hash", "Done"} =>
        /\ <<challenge_name, company_name>> =
               IF OneBar(user_input)
               THEN <<Trim(Before(user_input)), Trim(After(user_input))>>
               ELSE <<None, None>>
        /\ OneBar(user_input) =>
               /\ (challenge_name = <<>>) <=> Blank(Before(user_input))
               /\ (company_name = <<>>) <=> Blank(After(user_input))

\* C5 witness: "A|" has one "|" and a blank second part; parse_input
\* returned ("A", "") and not (None, None).
C5_Witness ==
    /\ pc = "Done"
    /\ user_input = <<"A", "|">>
    /\ challenge_name = <<"A">> /\ company_name = <<>>

\* C6: a click with malformed input ends with the format error and attempts
\* no pipeline step: nothing is hashed, loaded, built, saved, written,
\* embedded, searched or sent to the language model, and the disk is as it
\* was.
C6_MalformedTouchesNothing ==
    /\ [](InRun /\ ~WellFormed(user_input) =>
            /\ pc = "Done"
            /\ ui = <<FormatError>>
            /\ touched = {} /\ calls = <<>>
            /\ branch = "none" /\ vectorstore = 0 /\ docs = NoDocs
            /\ current_hash = None /\ email = None)
    /\ [][InRun' /\ ~WellFormed(user_input') => UNCHANGED diskVars]_vars

\* C6 witness: "A| " was clicked on a disk that holds an index, and the
\* page shows the format error.
C6_Witness ==
    /\ pc = "Done"
    /\ user_input = <<"A", "|", " ">>
    /\ ui = <<FormatError>>
    /\ indexArtifact # 0 /\ hashFile # NoFile

\* The index artifact exists and hash.txt matches the current file: what the
\* next call of load_or_create_vectorstore reads as up to date.
UpToDate == indexArtifact # 0 /\ FingerprintMatches

\* C9: when the rebuild branch returns normally, hash.txt holds exactly the
\* digest of the current file and the index artifact exists; from then on,
\* as long as the file bytes stay the same and the artifact is not removed,
\* the disk stays up to date and no call takes the rebuild branch (a rebuild
\* under way is past that choice when it reopens hash.txt); and hash.txt
\* changes only after the index of this rebuild was persisted.
C9_RebuildUpdatesFingerprint ==
    /\ [](pc \in {"Models", "Search"} /\ branch = "rebuild" =>
            /\ hashFile = current_hash
            /\ UpToDate
            /\ indexArtifact = excel)
    /\ [][UpToDate /\ pc # "OpenHash" /\ excel' = excel /\ indexArtifact' # 0 =>
            UpToDate' /\ pc' # "Build"]_vars
    /\ [][hashFile' # hashFile =>
            /\ branch = "rebuild" /\ "save" \in touched
            /\ indexArtifact = excel]_vars

\* C9 witness: a rebuild returned normally where hash.txt held the digest
\* of another file before, and now holds the current one.
C9_Witness ==
    /\ pc = "Models" /\ branch = "rebuild"
    /\ stored_hash \notin {None, <<>>, current_hash}
    /\ hashFile = current_hash

\* C10: whenever a call takes the load branch, the index artifact on disk
\* was built from a file whose fingerprint equals the current file's.
C10_LoadedIndexIsCurrent ==
    pc = "Load" =>
        /\ indexArtifact # 0
        /\ get_excel_hash(indexArtifact) = get_excel_hash(excel)

\* C3: the generation call is issued only when the combined text is not
\* blank; when every extraction call failed or answered a sentinel the
\* combined text is blank, the run returns the generic message, and no call
\* follows the extraction calls.
C3_NoGenerationOnBlank ==
    /\ pc = "Generate" => ~Blank(combined_text)
    /\ \A i \in 1..Len(calls) :
          calls[i].kind = "generate" =>
              /\ ~Blank(combined_text)
              /\ i = Len(filtered_docs) + 1
    /\ ExtractionOver /\ (\A i \in 1..Len(filtered_docs) : ~UsefulCall(i)) =>
          Blank(combined_text)
    /\ ExtractionOver /\ Blank(combined_text) =>
          /\ email = NoUsefulFactsMsg
          /\ Len(calls) = Len(filtered_docs)
          /\ \A i \in 1..Len(calls) : calls[i].kind = "extract"
          /\ pc = "Done" =>
                ui = <<[kind |-> "markdown",
                        text |-> NoUsefulFactsMsg \o <<"\n", "\n">>]>>

\* C3 witness: one extraction call failed, the other answered "[]", and the
\* run ended with the generic message.
C3_Witness ==
    /\ pc = "Done"
    /\ Len(calls) = 2
    /\ calls[1].outcome = Fail
    /\ calls[2].outcome = <<"[", "]">>
    /\ email = NoUsefulFactsMsg

\* No result of the search has a title equal to the challenge name, both
\* trimmed and lower-cased.
NoTitleMatches ==
    \A i \in 1..Len(docs) :
        Lower(Trim(docs[i].title)) # Lower(Trim(challenge_name))

\* C4: when no search result matches the challenge name, the run returns
\* the message naming the challenge and issues no language-model call.
C4_NoExactMatch ==
    docs # NoDocs /\ NoTitleMatches =>
        /\ pc \in {"Display", "Done"}
        /\ email = NoExactMatchMsg(challenge_name)
        /\ calls = <<>> /\ "llm" \notin touched
        /\ filtered_docs = <<>>
        /\ pc = "Done" =>
              ui = <<[kind |-> "markdown",
                      text |-> NoExactMatchMsg(challenge_name) \o <<"\n", "\n">>]>>

\* C4 witness: the search returned two documents, none titled like the
\* challenge, and the run ended.
C4_Witness ==
    /\ pc = "Done"
    /\ docs # NoDocs /\ Len(docs) = 2 /\ NoTitleMatches
    /\ email = NoExactMatchMsg(challenge_name)

\* C8: for a well-formed request, a run that did not reach the end of
\* generate_cold_email shows one error message and no e-mail text; text is
\* shown as markdown only when generate_cold_email returned, and nothing is
\* shown while the run is under way.
C8_FailuresShowErrors ==
    /\ InRun /\ pc # "Done" => ui = <<>>
    /\ pc = "Done" /\ WellFormed(user_input) =>
          /\ Len(ui) = 1
          /\ email = None /\ "search" \notin touched => ui = <<LoadError>>
          /\ email = None /\ "search" \in touched => ui = <<GenerationError>>
          /\ ui[1].kind = "markdown" =>
                /\ email # None
                /\ ui[1].text = Rendered(email)
                /\ \A i \in 1..Len(calls) : calls[i].outcome # Fail
                                             \/ calls[i].kind = "extract"

\* C8 witness: the generation call failed after a successful extraction and
\* the page shows the generation error.
C8_Witness ==
    /\ pc = "Done"
    /\ calls # <<>>
    /\ calls[Len(calls)] = GenerateCallRecord(Fail)
    /\ ~Blank(combined_text)
    /\ ui = <<GenerationError>>

\* Positions of the documents whose call succeeded with a useful response.
UsefulDocs == {i \in 1..Len(filtered_docs) : UsefulCall(i)}

\* Positions of the documents whose call did not fail.
AnsweredDocs == {i \in 1..Len(filtered_docs) : calls[i].outcome # Fail}

\* extract_relevant_info has just returned: line 130 sent the run to the
\* generation call or to the generic message.
Extracted == pc = "Generate" \/ (pc = "Display" /\ email = NoUsefulFactsMsg)

\* C2: usedSources is exactly the documents whose call succeeded with a
\* response that trims to none of "", "[]", '""', in document order, each
\* with its title, url and trimmed response; combinedText is those trimmed
\* responses joined with newlines in the same order.
C2_UsedSourcesExact ==
    Extracted =>
        LET n == Cardinality(UsefulDocs)
            facts == [k \in 1..n |-> Trim(calls[Nth(UsefulDocs, k)].outcome)]
        IN  /\ Len(used_sources) = n
            /\ \A k \in 1..n :
                  /\ used_sources[k].title = filtered_docs[Nth(UsefulDocs, k)].title
                  /\ used_sources[k].url = filtered_docs[Nth(UsefulDocs, k)].url
                  /\ used_sources[k].extracted_facts = facts[k]
            /\ combined_text = Lines(facts, n)

\* C2 witness: of two documents the first answered "[]" and the second
\* " [" (useful once trimmed); only the second is a used source.
C2_Witness ==
    /\ pc = "Generate"
    /\ Len(filtered_docs) = 2
    /\ calls[1].outcome = <<"[", "]">>
    /\ calls[2].outcome = <<" ", "[">>
    /\ Len(used_sources) = 1 /\ used_sources[1].url = "u2"
    /\ combined_text = <<"[">>

\* C7: a failed call aborts nothing: one call is made for every document,
\* in order; a document whose call failed is in neither result; and the
\* results equal those of the same extraction run on the documents and
\* responses with the failed ones left out.
C7_FailureSkipsOneDocument ==
    /\ pc = "Extract" =>
          /\ Len(calls) <= Len(filtered_docs)
          /\ Len(relevant_info_list) =
                Cardinality({i \in 1..Len(calls) : calls[i].outcome # Fail})
    /\ Extracted =>
          LET n == Cardinality(AnsweredDocs)
              ds == [k \in 1..n |-> filtered_docs[Nth(AnsweredDocs, k)]]
              rs == [k \in 1..n |-> calls[Nth(AnsweredDocs, k)].outcome]
          IN  /\ Len(calls) = Len(filtered_docs)
              /\ \A i \in 1..Len(calls) :
                    calls[i].kind = "extract" /\ calls[i].doc = i
              /\ \A i \in 1..Len(calls) :
                    calls[i].outcome = Fail =>
                        \A k \in 1..Len(used_sources) :
                            used_sources[k].url # filtered_docs[i].url
              /\ <<used_sources, combined_text>> = extract_relevant_info(ds, rs)

\* C7 witness: the first of two calls failed, the second was still made and
\* its document alone is a used source.
C7_Witness ==
    /\ pc = "Generate"
    /\ Len(calls) = 2
    /\ calls[1].outcome = Fail
    /\ calls[2].outcome # Fail
    /\ Len(used_sources) = 1 /\ used_sources[1].url = "u2"

====
